---- MODULE Spec2Model ----
(***************************************************************************)
(* Model of alert_prioritization.py: the frequency pre-pass                *)
(* (precompute_alert_frequency), the scorer (calculate_risk_score), the    *)
(* classifier (classify_priority) and the chunked driver (process_chunk,   *)
(* process_alerts with a multiprocessing Pool).                            *)
(*                                                                         *)
(* Text is a sequence of one-character strings.  A timestamp cell is       *)
(* modelled by the text of its minute field; pd.to_datetime parses it.     *)
(* Scores in the pipeline are integers (integer weights); the classifier   *)
(* takes a rational [num, den] so that scores between integers exist.      *)
(* A function that ends in exit(1) yields [exit |-> TRUE, ...]: SystemExit *)
(* is not an Exception, so no "except Exception" handler stops it.         *)
(***************************************************************************)
EXTENDS Integers, Sequences, FiniteSets, TLC

\* ------------------------------------------------------------ bounds
MaxAlerts == 3      \* rows in the input file
MaxTime == 1        \* timestamps are minutes 0..MaxTime
MaxSeverity == 5    \* severities 0..MaxSeverity (scorer inputs)
MaxFrequency == 3   \* precomputed_frequency 1..MaxFrequency (scorer inputs)
MaxScore == 20      \* classifier inputs are 0..MaxScore in steps of 1/ScoreDen
ScoreDen == 4       \* denominator of the classifier's inputs

\* ------------------------------------------------------------ text
DigitChars == <<"0", "1", "2", "3", "4", "5", "6", "7", "8", "9">>

IsDigit(c) == \E d \in 1..10 : DigitChars[d] = c

DigitValue(c) == (CHOOSE d \in 1..10 : DigitChars[d] = c) - 1

RECURSIVE DecimalValue(_)
DecimalValue(s) ==
    IF s = <<>> THEN 0
    ELSE 10 * DecimalValue(SubSeq(s, 1, Len(s) - 1)) + DigitValue(s[Len(s)])

\* int(s) on text without sign, blanks or underscores: a ValueError unless s is
\* a non-empty run of digits.
int(s) ==
    IF s # <<>> /\ \A i \in 1..Len(s) : IsDigit(s[i])
    THEN [ok |-> TRUE, value |-> DecimalValue(s)]
    ELSE [ok |-> FALSE, value |-> 0]

\* s[:-1]
DropLast(s) == SubSeq(s, 1, Len(s) - 1)

\* pd.to_datetime on one cell (the minute field of the timestamp).
to_datetime(cell) == int(cell)

\* dict.get(key, default)
get(d, key, default) == IF key \in DOMAIN d THEN d[key] ELSE default

\* ------------------------------------------------------------ load_config
required_keys ==
    {"alert_type_weights", "frequency_threshold", "role_weights", "ip_blacklist",
     "severity_weight", "frequency_weight", "role_weight"}

\* TRUE when load_config returns the config, FALSE when it raises KeyError.
load_config(cfg) == required_keys \subseteq DOMAIN cfg

\* ------------------------------------------------------------ precompute_alert_frequency
\* The minutes of the window: int(time_window[:-1]).
window_minutes(cfg) == int(DropLast(cfg.frequency_threshold.time_window))

\* frequency_dict[(target_ip, time_window_start)]: the sum of alert_count over
\* the rows of alert_df with that target_ip and that time_window_start.
RECURSIVE frequency_dict(_, _, _, _)
frequency_dict(rows, target_ip, time_window_start, n) ==
    IF n = 0 THEN 0
    ELSE frequency_dict(rows, target_ip, time_window_start, n - 1)
         + (IF /\ rows[n].target_ip = target_ip
               /\ rows[n].time_window_start = time_window_start
            THEN rows[n].alert_count ELSE 0)

precompute_alert_frequency(alert_df, cfg) ==
    LET Failed(msg) == [exit |-> TRUE, df |-> <<>>, printed |-> {msg}]
        cols == IF alert_df = <<>> THEN {} ELSE DOMAIN alert_df[1]
        w == window_minutes(cfg)
        stamped ==
            [i \in 1..Len(alert_df) |->
                [c \in cols \cup {"time_window_start"} |->
                    IF c = "timestamp" THEN to_datetime(alert_df[i].timestamp).value
                    ELSE IF c = "time_window_start"
                         THEN to_datetime(alert_df[i].timestamp).value - w.value
                    ELSE alert_df[i][c]]]
    IN  IF "timestamp" \notin cols
        THEN Failed("Error: Missing expected column in input CSV")
        ELSE IF \E i \in 1..Len(alert_df) : ~to_datetime(alert_df[i].timestamp).ok
        THEN Failed("Error while precomputing alert frequencies")
        ELSE IF ~w.ok
        THEN Failed("Error while precomputing alert frequencies")
        ELSE IF ~({"target_ip", "alert_count"} \subseteq cols)
        THEN Failed("Error: Missing expected column in input CSV")
        ELSE [exit |-> FALSE,
              df |-> [i \in 1..Len(alert_df) |->
                        [c \in cols \cup {"time_window_start", "precomputed_frequency"} |->
                            IF c = "precomputed_frequency"
                            THEN frequency_dict(stamped, stamped[i].target_ip,
                                                stamped[i].time_window_start, Len(stamped))
                            ELSE stamped[i][c]]],
              printed |-> {}]

\* ------------------------------------------------------------ calculate_risk_score
\* Line 85: the frequency term of the score.
frequency_weight(alert, cfg) ==
    IF alert.precomputed_frequency >= cfg.frequency_threshold.count THEN 1 ELSE 0

\* Line 88: the role term of the score.
role_weight(alert, cfg) == get(cfg.role_weights, alert.user_role, 0)

\* Line 82: the blacklist term of the score.
blacklist_weight(alert, cfg) == IF alert.source_ip \in cfg.ip_blacklist THEN 10 ELSE 0

calculate_risk_score(alert, cfg) ==
    IF ~({"alert_type", "severity", "source_ip", "precomputed_frequency", "user_role"}
            \subseteq DOMAIN alert)
    THEN [exit |-> TRUE, value |-> 0,
          printed |-> {"Error: Missing expected field in alert data"}]
    ELSE LET alert_type_weight == get(cfg.alert_type_weights, alert.alert_type, 0)
             severity_weight == alert.severity * cfg.severity_weight
         IN  [exit |-> FALSE,
              value |-> alert_type_weight + severity_weight + blacklist_weight(alert, cfg)
                        + frequency_weight(alert, cfg) + role_weight(alert, cfg),
              printed |-> {}]

\* ------------------------------------------------------------ classify_priority
\* A score num/den, den > 0.
Rat(n, d) == [num |-> n, den |-> d]

\* x > k for a score x and an integer k.
Gt(x, k) == x.num > k * x.den

\* classify_priority with the upper boundary taken inclusively (>= 15).
classify_priority_inclusive(risk_score) ==
    IF risk_score.num >= 15 * risk_score.den THEN "High"
    ELSE IF Gt(risk_score, 8) THEN "Medium"
    ELSE "Low"

classify_priority(risk_score) ==
    IF Gt(risk_score, 15) THEN "High"
    ELSE IF Gt(risk_score, 8) THEN "Medium"
    ELSE "Low"

\* ------------------------------------------------------------ process_chunk
\* Lines 115-118: the rows of the chunk are scored in order.  A row whose
\* scoring ends in exit(1) ends the worker; a KeyError on alert['alert_id']
\* is caught at line 121 and the chunk returns [].
RECURSIVE score_rows(_, _, _, _)
score_rows(alert_df, cfg, i, acc) ==
    IF i > Len(alert_df) THEN [kind |-> "return", results |-> acc, printed |-> {}]
    ELSE LET risk == calculate_risk_score(alert_df[i], cfg)
         IN  IF risk.exit
             THEN [kind |-> "exit", results |-> <<>>, printed |-> risk.printed]
             ELSE IF "alert_id" \notin DOMAIN alert_df[i]
             THEN [kind |-> "return", results |-> <<>>,
                   printed |-> {"Error processing chunk"}]
             ELSE score_rows(alert_df, cfg, i + 1,
                    Append(acc, [alert_id |-> alert_df[i].alert_id,
                                 risk_score |-> risk.value,
                                 priority |-> classify_priority(Rat(risk.value, 1))]))

process_chunk(chunk, cfg) ==
    LET pre == precompute_alert_frequency(chunk, cfg)
    IN  IF pre.exit
        THEN [kind |-> "exit", results |-> <<>>, printed |-> pre.printed]
        ELSE score_rows(pre.df, cfg, 1, <<>>)

\* ------------------------------------------------------------ process_alerts
\* The chunk pd.read_csv(chunksize=size) yields at row `first`.
read_chunk(rows, first, size) ==
    SubSeq(rows, first, IF first + size - 1 < Len(rows) THEN first + size - 1 ELSE Len(rows))

\* The chunk's result put in front of the earlier ones.
extend_in_front(res, result) == result \o res

\* results.extend(result)
extend(res, result) == res \o result

\* results_df['priority'].value_counts()
value_counts(res) ==
    [p \in {res[i].priority : i \in 1..Len(res)} |->
        Cardinality({i \in 1..Len(res) : res[i].priority = p})]

VARIABLES
    alerts,        \* the rows of the input CSV, in file order
    config,        \* the JSON configuration
    chunk_size,    \* rows per chunk (10000 in the source; here 1..Len(alerts))
    pc,            \* where process_alerts is
    next_row,      \* first row of the next chunk to read
    task,          \* the chunk handed to the pool by pool.apply
    worker,        \* the worker that took the task
    reply,         \* the result the worker sent back
    results,       \* process_alerts' results list
    output_file,   \* alerts_with_priority.csv
    summary,       \* the value process_alerts returns
    stdout,        \* what was printed
    call           \* a direct call of one function: arguments and return value

vars == <<alerts, config, chunk_size, pc, next_row, task, worker, reply, results,
          output_file, summary, stdout, call>>

pipeline == <<alerts, config, chunk_size, pc, next_row, task, worker, reply, results,
              output_file, summary, stdout>>

NoReply == [present |-> FALSE, value |-> <<>>]

NoCall == [fn |-> "none"]

\* ------------------------------------------------------------ inputs
TargetIps == {"10.0.0.1", "10.0.0.2"}

\* Minute fields of timestamps: the minutes 0..MaxTime, and one that does not parse.
TimestampCells == {<<DigitChars[m + 1]>> : m \in 0..MaxTime} \cup {<<"x">>}

\* frequency_threshold.time_window: "1m", "2m", "1h", "12", "xm", "m"
TimeWindows ==
    {<<"1", "m">>, <<"2", "m">>, <<"1", "h">>, <<"1", "2">>, <<"x", "m">>, <<"m">>}

\* alert_id of the i-th row: unique, and not in increasing order.
AlertIds == <<103, 101, 104, 102, 105, 100>>

AllColumns ==
    {"alert_id", "timestamp", "source_ip", "target_ip", "severity", "user_role",
     "alert_type", "alert_count"}

FullConfig(time_window) ==
    [alert_type_weights |-> [malware |-> 2],
     frequency_threshold |-> [time_window |-> time_window, count |-> 2],
     role_weights |-> [admin |-> 3],
     ip_blacklist |-> {"1.2.3.4"},
     severity_weight |-> 1,
     frequency_weight |-> 2,
     role_weight |-> 2]

Restrict(f, keys) == [k \in DOMAIN f \cap keys |-> f[k]]

\* The inputs of a run: a valid input with each time_window, and a valid
\* time_window with one column of the CSV or one key of the config missing.
InputVariants ==
    {[columns |-> AllColumns, keys |-> required_keys, time_window |-> tw] :
        tw \in TimeWindows}
    \cup {[columns |-> AllColumns \ {c}, keys |-> required_keys,
           time_window |-> <<"1", "m">>] : c \in {"alert_type", "alert_id"}}
    \cup {[columns |-> AllColumns, keys |-> required_keys \ {"role_weight"},
           time_window |-> <<"1", "m">>]}

\* ------------------------------------------------------------ the run of process_alerts
Init ==
    /\ \E n \in 1..MaxAlerts, input \in InputVariants :
         \E cells \in [1..n -> [target_ip : TargetIps, timestamp : TimestampCells]] :
            /\ alerts = [i \in 1..n |->
                           Restrict([alert_id |-> AlertIds[i],
                                     timestamp |-> cells[i].timestamp,
                                     source_ip |-> "5.6.7.8",
                                     target_ip |-> cells[i].target_ip,
                                     severity |-> 10,
                                     user_role |-> "admin",
                                     alert_type |-> "malware",
                                     alert_count |-> 1], input.columns)]
            /\ config = Restrict(FullConfig(input.time_window), input.keys)
    /\ chunk_size \in 1..Len(alerts)
    /\ pc = "load_config"
    /\ next_row = 1
    /\ task = <<>>
    /\ worker = "idle"
    /\ reply = NoReply
    /\ results = <<>>
    /\ output_file = [written |-> FALSE, rows |-> <<>>]
    /\ summary = <<>>
    /\ stdout = {}
    /\ call = NoCall

\* Line 129.  A KeyError from load_config reaches the handler at line 157: exit(1).
LoadConfig ==
    /\ pc = "load_config"
    /\ IF load_config(config)
       THEN pc' = "read_csv" /\ UNCHANGED stdout
       ELSE /\ pc' = "exit"
            /\ stdout' = stdout \cup {"Error: Missing required key",
                                       "Unexpected error while processing alerts"}
    /\ UNCHANGED <<alerts, config, chunk_size, next_row, task, worker, reply, results,
                   output_file, summary, call>>

\* Lines 137-138: the next chunk is read and handed to the pool; pool.apply blocks.
Apply ==
    /\ pc = "read_csv"
    /\ next_row <= Len(alerts)
    /\ task' = read_chunk(alerts, next_row, chunk_size)
    /\ worker' = "busy"
    /\ pc' = "apply"
    /\ UNCHANGED <<alerts, config, chunk_size, next_row, reply, results, output_file,
                   summary, stdout, call>>

\* The worker runs process_chunk(chunk, config).  When it ends in exit(1) the
\* worker process dies without sending a result, and pool.apply never returns.
Worker ==
    /\ pc = "apply"
    /\ worker = "busy"
    /\ LET out == process_chunk(task, config)
       IN  /\ stdout' = stdout \cup out.printed
           /\ IF out.kind = "exit"
              THEN worker' = "exited" /\ UNCHANGED reply
              ELSE worker' = "idle" /\ reply' = [present |-> TRUE, value |-> out.results]
    /\ UNCHANGED <<alerts, config, chunk_size, pc, next_row, task, results, output_file,
                   summary, call>>

\* Line 139: pool.apply returned.
Extend ==
    /\ pc = "apply"
    /\ reply.present
    /\ results' = extend(results, reply.value)
    /\ next_row' = next_row + chunk_size
    /\ reply' = NoReply
    /\ task' = <<>>
    /\ pc' = "read_csv"
    /\ UNCHANGED <<alerts, config, chunk_size, worker, output_file, summary, stdout, call>>

\* Lines 142-147: the file is written, then the summary is computed.  With no
\* results the frame has no 'priority' column: KeyError, handled at line 157.
WriteOutput ==
    /\ pc = "read_csv"
    /\ next_row > Len(alerts)
    /\ output_file' = [written |-> TRUE, rows |-> results]
    /\ IF results = <<>>
       THEN /\ pc' = "exit"
            /\ stdout' = stdout \cup {"Unexpected error while processing alerts"}
            /\ UNCHANGED summary
       ELSE /\ pc' = "done"
            /\ summary' = value_counts(results)
            /\ UNCHANGED stdout
    /\ UNCHANGED <<alerts, config, chunk_size, next_row, task, worker, reply, results, call>>

Next == LoadConfig \/ Apply \/ Worker \/ Extend \/ WriteOutput

Spec == Init /\ [][Next]_vars

\* ------------------------------------------------------------ direct calls
\* The driver's variables when only one function is called.
NoRun ==
    /\ alerts = <<>>
    /\ config = FullConfig(<<"1", "m">>)
    /\ chunk_size = 1
    /\ pc = "idle"
    /\ next_row = 1
    /\ task = <<>>
    /\ worker = "idle"
    /\ reply = NoReply
    /\ results = <<>>
    /\ output_file = [written |-> FALSE, rows |-> <<>>]
    /\ summary = <<>>
    /\ stdout = {}

\* precompute_alert_frequency on a frame of up to MaxAlerts rows.
InitFreq ==
    /\ NoRun
    /\ \E n \in 1..MaxAlerts, time_window \in TimeWindows :
         \E rows \in [1..n -> [target_ip : TargetIps, timestamp : TimestampCells,
                               alert_count : {1, 2}]] :
            call = [fn |-> "precompute_alert_frequency",
                    alert_df |-> rows,
                    config |-> FullConfig(time_window),
                    returned |-> FALSE,
                    ret |-> [exit |-> FALSE, df |-> <<>>, printed |-> {}]]

Precompute ==
    /\ call.fn = "precompute_alert_frequency"
    /\ ~call.returned
    /\ call' = [call EXCEPT !.returned = TRUE,
                            !.ret = precompute_alert_frequency(call.alert_df, call.config)]
    /\ UNCHANGED pipeline

NextFreq == Precompute

SpecFreq == InitFreq /\ [][NextFreq]_vars

\* calculate_risk_score on one alert, with or without an alert_type field.
ScoreConfig(sw, fw, rw) ==
    [FullConfig(<<"1", "m">>) EXCEPT !.severity_weight = sw,
                                     !.frequency_weight = fw,
                                     !.role_weight = rw]

InitScore ==
    /\ NoRun
    /\ \E severity \in 0..MaxSeverity, user_role \in {"admin", "guest"},
          source_ip \in {"1.2.3.4", "5.6.7.8"}, frequency \in 1..MaxFrequency,
          alert_type \in {"malware", "other"}, has_alert_type \in BOOLEAN,
          sw \in 1..2, fw \in 1..2, rw \in 1..2 :
         call = [fn |-> "calculate_risk_score",
                 alert |-> Restrict([severity |-> severity,
                                     user_role |-> user_role,
                                     source_ip |-> source_ip,
                                     precomputed_frequency |-> frequency,
                                     alert_type |-> alert_type],
                                    IF has_alert_type
                                    THEN AllColumns \cup {"precomputed_frequency"}
                                    ELSE (AllColumns \cup {"precomputed_frequency"})
                                         \ {"alert_type"}),
                 config |-> ScoreConfig(sw, fw, rw),
                 returned |-> FALSE,
                 ret |-> [exit |-> FALSE, value |-> 0, printed |-> {}]]

Score ==
    /\ call.fn = "calculate_risk_score"
    /\ ~call.returned
    /\ call' = [call EXCEPT !.returned = TRUE,
                            !.ret = calculate_risk_score(call.alert, call.config)]
    /\ UNCHANGED pipeline

NextScore == Score

SpecScore == InitScore /\ [][NextScore]_vars

\* classify_priority on the scores 0, 1/ScoreDen, 2/ScoreDen, ..., MaxScore.
InitClassify ==
    /\ NoRun
    /\ \E n \in 0..(MaxScore * ScoreDen) :
         call = [fn |-> "classify_priority",
                 risk_score |-> Rat(n, ScoreDen),
                 returned |-> FALSE,
                 ret |-> ""]

Classify ==
    /\ call.fn = "classify_priority"
    /\ ~call.returned
    /\ call' = [call EXCEPT !.returned = TRUE,
                            !.ret = classify_priority(call.risk_score)]
    /\ UNCHANGED pipeline

NextClassify == Classify

SpecClassify == InitClassify /\ [][NextClassify]_vars

\* ============================================================ properties

\* Only the timestamps can be at fault: the config loads, the window parses and
\* every column is there.
InputOtherwiseValid ==
    /\ load_config(config)
    /\ window_minutes(config).ok
    /\ \A i \in 1..Len(alerts) : AllColumns \subseteq DOMAIN alerts[i]

HasBadTimestamp ==
    \E i \in 1..Len(alerts) :
        "timestamp" \in DOMAIN alerts[i] /\ ~to_datetime(alerts[i].timestamp).ok

\* The row of the input that carries alert_id id.
InputPosition(id) == CHOOSE k \in 1..Len(alerts) : alerts[k].alert_id = id

\* C1: chunking invariance.  A completed run's results are, alert for alert, the
\* risk_score and priority that process_chunk gives on the whole input as one chunk.
C1_ChunkingInvariance ==
    pc = "done" => results = process_chunk(alerts, config).results

\* C2: the merged results are in input order.  Any two results stand in the
\* order of their rows in the input, and a completed run's alert_ids are the
\* input's alert_ids, in the input's order.
C2_InputOrder ==
    /\ \A i, j \in 1..Len(results) :
          i < j => InputPosition(results[i].alert_id) < InputPosition(results[j].alert_id)
    /\ pc = "done" =>
          [i \in 1..Len(results) |-> results[i].alert_id]
            = [i \in 1..Len(alerts) |-> alerts[i].alert_id]

\* C2 witness: a run of at least two chunks has completed with every row scored.
C2_Witness ==
    /\ pc = "done"
    /\ chunk_size < Len(alerts)
    /\ Len(results) = Len(alerts)

\* C3: the frequency of a row is the number of rows with the same key (the
\* code's key, target_ip) whose timestamp is in (timestamp - window, timestamp],
\* the row itself included.
C3_TrailingWindowCount ==
    (call.fn = "precompute_alert_frequency" /\ call.returned /\ ~call.ret.exit) =>
        LET df == call.ret.df
            w == window_minutes(call.config).value
        IN  \A i \in 1..Len(df) :
                df[i].precomputed_frequency
                  = Cardinality({j \in 1..Len(df) :
                                    /\ df[j].target_ip = df[i].target_ip
                                    /\ df[j].timestamp > df[i].timestamp - w
                                    /\ df[j].timestamp <= df[i].timestamp})

\* C4: a record error is record-scoped.  With an unparsable timestamp in an
\* otherwise valid input no worker dies and the run does not fail, and the
\* completed run's output holds the other records and not the bad one.
C4_RecordScoped ==
    (HasBadTimestamp /\ InputOtherwiseValid) =>
        /\ worker # "exited"
        /\ pc # "exit"
        /\ pc = "done" =>
              {results[i].alert_id : i \in 1..Len(results)}
                = {alerts[i].alert_id : i \in {k \in 1..Len(alerts) :
                                                  to_datetime(alerts[k].timestamp).ok}}

\* C5: no truncated output.  The output file is written only when no chunk
\* failed: no worker died and no chunk gave up with "Error processing chunk".
C5_NoTruncatedOutput ==
    output_file.written =>
        /\ worker # "exited"
        /\ "Error processing chunk" \notin stdout

\* C6: the risk score is severity*severity_weight + frequency_score
\* + role_weights.get(user_role, 0)*role_weight + (10 if blacklisted)
\* + alert_type_weights.get(alert_type, 0).  The frequency term is taken as
\* the scorer computes it, so that only the other terms are in question.
C6_RiskScoreFormula ==
    (call.fn = "calculate_risk_score" /\ call.returned /\ ~call.ret.exit) =>
        call.ret.value
          = call.alert.severity * call.config.severity_weight
            + frequency_weight(call.alert, call.config)
            + get(call.config.role_weights, call.alert.user_role, 0) * call.config.role_weight
            + (IF call.alert.source_ip \in call.config.ip_blacklist THEN 10 ELSE 0)
            + get(call.config.alert_type_weights, call.alert.alert_type, 0)

\* C7: the frequency term is 0 below frequency_threshold.count and
\* recent_count * frequency_weight at or above it.
C7_FrequencyScore ==
    (call.fn = "calculate_risk_score" /\ call.returned /\ ~call.ret.exit) =>
        frequency_weight(call.alert, call.config)
          = IF call.alert.precomputed_frequency >= call.config.frequency_threshold.count
            THEN call.alert.precomputed_frequency * call.config.frequency_weight
            ELSE 0

\* C8: classify_priority has exact boundaries: High iff score > 15, Medium iff
\* 8 < score <= 15, Low iff score <= 8.
C8_PriorityBoundaries ==
    (call.fn = "classify_priority" /\ call.returned) =>
        LET n == call.risk_score.num
            d == call.risk_score.den
        IN  /\ call.ret \in {"High", "Medium", "Low"}
            /\ call.ret = "High" <=> n > 15 * d
            /\ call.ret = "Medium" <=> (8 * d < n /\ n <= 15 * d)
            /\ call.ret = "Low" <=> n <= 8 * d

\* C8 witness: the score exactly 15 has been classified, as Medium.
C8_Witness ==
    /\ call.fn = "classify_priority"
    /\ call.returned
    /\ call.risk_score.num = 15 * call.risk_score.den
    /\ call.ret = "Medium"

\* C9: missing lookups are no error.  Scoring returns normally, and an unknown
\* user_role, an unknown alert_type or an absent alert_type field adds 0.  The
\* role and frequency terms are taken as the scorer computes them.
C9_MissingLookupsScoreZero ==
    (call.fn = "calculate_risk_score" /\ call.returned) =>
        /\ ~call.ret.exit
        /\ call.ret.value
             = call.alert.severity * call.config.severity_weight
               + frequency_weight(call.alert, call.config)
               + (IF call.alert.user_role \in DOMAIN call.config.role_weights
                  THEN call.config.role_weights[call.alert.user_role] ELSE 0)
               + blacklist_weight(call.alert, call.config)
               + (IF /\ "alert_type" \in DOMAIN call.alert
                     /\ call.alert.alert_type \in DOMAIN call.config.alert_type_weights
                  THEN call.config.alert_type_weights[call.alert.alert_type] ELSE 0)

\* "<integer>m": a non-empty run of digits, then m.
WellFormedWindow(time_window) ==
    /\ Len(time_window) >= 2
    /\ time_window[Len(time_window)] = "m"
    /\ \A i \in 1..(Len(time_window) - 1) : IsDigit(time_window[i])

\* C10: a time_window that is not "<integer>m" is fatal before any scoring.  No
\* alert is scored and no output is written in a run with such a window.
C10_MalformedWindowFatal ==
    (pc # "idle" /\ ~WellFormedWindow(config.frequency_threshold.time_window)) =>
        /\ reply.value = <<>>
        /\ results = <<>>
        /\ ~output_file.written
        /\ pc # "done"

====
